---- MODULE Spec2Model ----
(***************************************************************************)
(* Model of scripts/sct_dmri_moco.py: dmri_moco(), the motion-correction   *)
(* pipeline for diffusion MRI series (vector gradient table, i.e. the      *)
(* branch fname_bvals == '').                                              *)
(*                                                                         *)
(* Gradient components are integers in units of 1/1000, so the threshold   *)
(* 0.01 of line 258 is 10 and sqrt(s) < 0.01 is s < 10*10 on the squares.  *)
(* A transform file is modelled by its provenance: the sequence of the     *)
(* estimates it is composed of, each estimate a record [pass, t, z] naming *)
(* the pass that produced it and the (index, slice) it was produced for.   *)
(* A directory of transform files mat.T<t>_Z<z>.txt is a function whose    *)
(* domain is the set of <<t, z>> for which a file exists.                  *)
(***************************************************************************)
EXTENDS Integers, Sequences, FiniteSets, TLC

\* ---------------------------------------------------------------- bounds
MaxT == 4
MaxZ == 2
MaxGroupSize == 3

\* ------------------------------------------------------ program constants
\* 0.01 of line 258, in units of 1/1000
B0NormThreshold == 10
\* the row width tested at line 247
RowWidth == 3

\* ----------------------------------------------------------- pure helpers
Range(s) == {s[i] : i \in DOMAIN s}

Abs(x) == IF x < 0 THEN -x ELSE x

Min2(a, b) == IF a < b THEN a ELSE b

\* Python 2 integer division a/b (floor), b # 0
PyFloorDiv(a, b) == IF b > 0 THEN a \div b ELSE (-a) \div (-b)

\* Python a % b (sign of the divisor), b # 0
PyMod(a, b) == a - b * PyFloorDiv(a, b)

\* Python slice s[lo:hi] for 0 <= lo, 0 <= hi (0-based, clamped to len(s))
PySlice(s, lo, hi) == SubSeq(s, Min2(lo, Len(s)) + 1, Min2(hi, Len(s)))

\* 0-based read s[i] of a Python list, i >= 0 in range
At(s, i) == s[i + 1]

RECURSIVE SumSq(_)
SumSq(row) == IF row = <<>> THEN 0 ELSE Head(row) * Head(row) + SumSq(Tail(row))

\* math.sqrt(math.fsum([i**2 for i in row])) < 0.01
NormBelowThresholdLe(row) == SumSq(row) <= B0NormThreshold * B0NormThreshold

NormBelowThreshold(row) == SumSq(row) < B0NormThreshold * B0NormThreshold

RECURSIVE MinLen(_)
MinLen(rows) ==
    IF Len(rows) = 1 THEN Len(rows[1]) ELSE Min2(Len(rows[1]), MinLen(Tail(rows)))

\* zip(*bvecs): row j of the result holds component j of every row
Transpose(rows) ==
    IF rows = <<>> THEN <<>>
    ELSE [j \in 1..MinLen(rows) |-> [i \in 1..Len(rows) |-> rows[i][j]]]

\* lines 246-251: a table whose first row is not of width 3 is transposed
NormalizeBvecsStrict(rows) == rows

NormalizeBvecs(rows) == IF Len(rows[1]) # RowWidth THEN Transpose(rows) ELSE rows

\* lines 255-261, the loop over it in xrange(0, nt): the pair of index lists
RECURSIVE ClassifyFrom(_, _, _, _)
ClassifyFrom(rows, it, n, acc) ==
    IF it >= n THEN acc
    ELSE IF NormBelowThreshold(rows[it + 1])
         THEN ClassifyFrom(rows, it + 1, n, [acc EXCEPT !.b0 = Append(@, it)])
         ELSE ClassifyFrom(rows, it + 1, n, [acc EXCEPT !.dwi = Append(@, it)])

Classify(rows, n) == ClassifyFrom(rows, 0, n, [b0 |-> <<>>, dwi |-> <<>>])

\* ---------------------------------------------------------------- inputs
\* rows of a gradient table: a zero vector, a nonzero one of norm 0.0085,
\* and one of norm exactly 0.01
GradientRows == {<<0, 0, 0>>, <<6, 6, 0>>, <<10, 0, 0>>}

ShortRows == {<<0, 0>>, <<10, 0>>}

\* n x 3 tables, their 3 x n transposes, and n x 2 tables
Tables(n) ==
    [1..n -> GradientRows]
      \cup {Transpose(tb) : tb \in [1..n -> GradientRows]}
      \cup [1..n -> ShortRows]

GroupSizes == (-2)..MaxGroupSize

VARIABLES
    pc,             \* position in dmri_moco
    error,          \* exception that ended the run, or "none"
    nt, nz,         \* sct.get_dimension(fname_data)
    dwi_group_size, \* param.dwi_group_size (-d)
    spline_fitting, \* param.spline_fitting (-f)
    run_eddy,       \* param.run_eddy (-e)
    bvecs_file,     \* the rows of the file fname_bvecs
    bvecs,          \* the list bvecs of lines 240-251
    transposed,     \* whether line 251 ran
    index_b0, index_dwi,
    nb_groups, group_indexes,
    b0_target,      \* time index of the volume named by param.fname_target in the B0 pass
    bridge_src,     \* index_dwi[index] of line 391
    mat_dwigroups, mat_b0groups, mat_eddy, mat_final,
    calls,          \* calls made to the moco module, in order
    fname_data      \* param.fname_data: the series the next moco.moco call reads

vars == <<pc, error, nt, nz, dwi_group_size, spline_fitting, run_eddy, bvecs_file, bvecs,
          transposed, index_b0, index_dwi, nb_groups, group_indexes, b0_target,
          bridge_src, mat_dwigroups, mat_b0groups, mat_eddy, mat_final, calls,
          fname_data>>

EmptyMat == [k \in {} |-> <<>>]

Slices == 0..(nz - 1)

Keys(mat) == DOMAIN mat

Estimate(pass, t, z) == <<[pass |-> pass, t |-> t, z |-> z]>>

Init ==
    /\ pc = "identify"
    /\ error = "none"
    /\ nt \in 1..MaxT
    /\ nz \in 1..MaxZ
    /\ dwi_group_size \in GroupSizes
    /\ spline_fitting \in {0, 1}
    /\ run_eddy \in {0, 1}
    /\ bvecs_file \in Tables(nt)
    /\ bvecs = <<>>
    /\ transposed = FALSE
    /\ index_b0 = <<>>
    /\ index_dwi = <<>>
    /\ nb_groups = 0
    /\ group_indexes = <<>>
    /\ b0_target = -1
    /\ bridge_src = -1
    /\ mat_dwigroups = EmptyMat
    /\ mat_b0groups = EmptyMat
    /\ mat_eddy = IF run_eddy = 1
                  THEN [k \in (0..(nt - 1)) \X (0..(nz - 1)) |-> Estimate("eddy", k[1], k[2])]
                  ELSE EmptyMat
    /\ mat_final = EmptyMat
    /\ calls = <<>>
    \* lines 179-187 of main: the eddy-corrected series when run_eddy is set
    /\ fname_data = IF run_eddy # 0 THEN "eddy" ELSE "initial"

\* an uncaught exception or a failed command ends the run where it is
Fail(e) ==
    /\ pc' = pc
    /\ error' = e

Running == error = "none"

\* lines 237-265
IdentifyVolumes ==
    /\ Running
    /\ pc = "identify"
    /\ LET rows == NormalizeBvecs(bvecs_file)
           cls == Classify(rows, nt)
       IN  /\ bvecs' = rows
           /\ transposed' = (Len(bvecs_file[1]) # RowWidth)
           /\ IF Len(rows) < nt
              THEN \* bvecs[it] past the last row
                   /\ Fail("IndexError")
                   /\ UNCHANGED <<index_b0, index_dwi>>
              ELSE /\ index_b0' = cls.b0
                   /\ index_dwi' = cls.dwi
                   /\ pc' = "split"
                   /\ UNCHANGED error
    /\ UNCHANGED <<nt, nz, dwi_group_size, spline_fitting, run_eddy, bvecs_file,
                   nb_groups, group_indexes, b0_target, bridge_src, mat_dwigroups,
                   mat_b0groups, mat_eddy, mat_final, calls,
                   fname_data>>

\* lines 285-302: fslsplit, fslmerge of the b=0 volumes, their temporal mean
SplitAndMergeB0 ==
    /\ Running
    /\ pc = "split"
    /\ pc' = "groups"
    /\ UNCHANGED <<error, nt, nz, dwi_group_size, spline_fitting, run_eddy, bvecs_file,
                   bvecs,
                   transposed, index_b0, index_dwi, nb_groups, group_indexes,
                   b0_target, bridge_src, mat_dwigroups, mat_b0groups, mat_eddy,
                   mat_final, calls,
                   fname_data>>

\* lines 308-310: the full groups
FullGroups(idx, gs, nb) ==
    IF nb <= 0 THEN <<>>
    ELSE [g \in 1..nb |-> PySlice(idx, (g - 1) * gs, g * gs)]

\* lines 305-316 for gs # 0: nb_groups and group_indexes
GroupIndexesDropRemainder(idx, gs) ==
    [nb |-> PyFloorDiv(Len(idx), gs),
     groups |-> FullGroups(idx, gs, PyFloorDiv(Len(idx), gs))]

GroupIndexes(idx, gs) ==
    LET n_dwi == Len(idx)
        nb == PyFloorDiv(n_dwi, gs)
        full == FullGroups(idx, gs, nb)
        nb_remaining == PyMod(n_dwi, gs)
    IN  IF nb_remaining > 0
        THEN [nb |-> nb + 1,
              groups |-> Append(full, PySlice(idx, n_dwi - nb_remaining, n_dwi))]
        ELSE [nb |-> nb, groups |-> full]

\* lines 304-316
BuildGroups ==
    /\ Running
    /\ pc = "groups"
    /\ IF dwi_group_size = 0
       THEN \* n_dwi/dwi_group_size
            /\ Fail("ZeroDivisionError")
            /\ UNCHANGED <<nb_groups, group_indexes>>
       ELSE /\ nb_groups' = GroupIndexes(index_dwi, dwi_group_size).nb
            /\ group_indexes' = GroupIndexes(index_dwi, dwi_group_size).groups
            /\ pc' = "dwi_means"
            /\ UNCHANGED error
    /\ UNCHANGED <<nt, nz, dwi_group_size, spline_fitting, run_eddy, bvecs_file,
                   bvecs,
                   transposed, index_b0, index_dwi, b0_target, bridge_src,
                   mat_dwigroups, mat_b0groups, mat_eddy, mat_final, calls,
                   fname_data>>

\* lines 318-351: per-group merge and mean, merge of the means, their mean
AverageGroups ==
    /\ Running
    /\ pc = "dwi_means"
    /\ pc' = "moco_dwi"
    /\ UNCHANGED <<error, nt, nz, dwi_group_size, spline_fitting, run_eddy, bvecs_file,
                   bvecs,
                   transposed, index_b0, index_dwi, nb_groups, group_indexes,
                   b0_target, bridge_src, mat_dwigroups, mat_b0groups, mat_eddy,
                   mat_final, calls,
                   fname_data>>

\* moco.moco with todo = 'estimate_and_apply' on a series of n volumes:
\* one transform file per (volume of the series, slice)
MocoEstimates(pass, n, slices) ==
    [k \in (0..(n - 1)) \X slices |-> Estimate(pass, k[1], k[2])]

\* lines 353-361
MocoDwiGroups ==
    /\ Running
    /\ pc = "moco_dwi"
    /\ fname_data' = "dwi_averaged_groups"
    /\ calls' = Append(calls, "moco_dwi")
    /\ mat_dwigroups' = MocoEstimates("dwi", nb_groups, Slices)
    /\ pc' = "moco_b0"
    /\ UNCHANGED <<error, nt, nz, dwi_group_size, spline_fitting, run_eddy, bvecs_file,
                   bvecs,
                   transposed, index_b0, index_dwi, nb_groups, group_indexes,
                   b0_target, bridge_src, mat_b0groups, mat_eddy, mat_final>>

\* lines 365-371: the position in index_b0 of the B0-pass target
B0TargetRankFirstDwi(b0, dwi) == At(dwi, 0)

B0TargetRank(b0, dwi) == IF At(dwi, 0) # 0 THEN At(dwi, 0) - 1 ELSE 0

\* index_dwi[0] and index_b0[...] of lines 365-371 are in range
B0TargetDefined ==
    /\ index_dwi # <<>>
    /\ B0TargetRank(index_b0, index_dwi) < Len(index_b0)

\* lines 363-376
MocoB0 ==
    /\ Running
    /\ pc = "moco_b0"
    /\ fname_data' = "b0"
    /\ IF B0TargetDefined
       THEN /\ b0_target' = At(index_b0, B0TargetRank(index_b0, index_dwi))
            /\ calls' = Append(calls, "moco_b0")
            /\ mat_b0groups' = MocoEstimates("b0", Len(index_b0), Slices)
            /\ pc' = "expand"
            /\ UNCHANGED error
       ELSE /\ Fail("IndexError")
            /\ UNCHANGED <<b0_target, calls, mat_b0groups>>
    /\ UNCHANGED <<nt, nz, dwi_group_size, spline_fitting, run_eddy, bvecs_file,
                   bvecs,
                   transposed, index_b0, index_dwi, nb_groups, group_indexes,
                   bridge_src, mat_dwigroups, mat_eddy, mat_final>>

RECURSIVE Flatten(_)
Flatten(ss) == IF ss = <<>> THEN <<>> ELSE Head(ss) \o Flatten(Tail(ss))

\* sct.run('cp src/mat.T<s> dst/mat.T<d>') for each op = <<s, d>> in order;
\* ok is FALSE as soon as a source file does not exist
RECURSIVE CopyAll(_, _, _)
CopyAll(src, dst, ops) ==
    IF ops = <<>> THEN [ok |-> TRUE, mat |-> dst]
    ELSE LET s == Head(ops)[1]
             d == Head(ops)[2]
         IN  IF s \notin DOMAIN src THEN [ok |-> FALSE, mat |-> dst]
             ELSE CopyAll(src,
                          [k \in DOMAIN dst \cup {d} |-> IF k = d THEN src[s] ELSE dst[k]],
                          Tail(ops))

\* the same with source and destination in one directory
RECURSIVE CopyWithin(_, _)
CopyWithin(mat, ops) ==
    IF ops = <<>> THEN [ok |-> TRUE, mat |-> mat]
    ELSE LET s == Head(ops)[1]
             d == Head(ops)[2]
         IN  IF s \notin DOMAIN mat THEN [ok |-> FALSE, mat |-> mat]
             ELSE CopyWithin([k \in DOMAIN mat \cup {d} |-> IF k = d THEN mat[s] ELSE mat[k]],
                             Tail(ops))

\* sct.run('mv dir/mat.T<s> dir/mat.T<d>') for each op = <<s, d>> in order
RECURSIVE MoveWithin(_, _)
MoveWithin(mat, ops) ==
    IF ops = <<>> THEN [ok |-> TRUE, mat |-> mat]
    ELSE LET s == Head(ops)[1]
             d == Head(ops)[2]
         IN  IF s \notin DOMAIN mat THEN [ok |-> FALSE, mat |-> mat]
             ELSE MoveWithin([k \in (DOMAIN mat \cup {d}) \ {s} |->
                                 IF k = d THEN mat[s] ELSE mat[k]],
                             Tail(ops))

\* lines 383-386: the copies of the three nested loops, in order
GroupCopyOpsFirstGroup(groups, nb, n_z) ==
    IF nb <= 0 THEN <<>>
    ELSE Flatten([g \in 1..nb |->
            Flatten([d \in 1..Len(groups[g]) |->
                [z \in 1..n_z |-> <<<<0, z - 1>>, <<groups[g][d], z - 1>>>>]])])

GroupCopyOps(groups, nb, n_z) ==
    IF nb <= 0 THEN <<>>
    ELSE Flatten([g \in 1..nb |->
            Flatten([d \in 1..Len(groups[g]) |->
                [z \in 1..n_z |-> <<<<g - 1, z - 1>>, <<groups[g][d], z - 1>>>>]])])

\* lines 378-386
CopyGroupMatrices ==
    /\ Running
    /\ pc = "expand"
    /\ LET r == CopyAll(mat_dwigroups, mat_final, GroupCopyOps(group_indexes, nb_groups, nz))
       IN  /\ mat_final' = r.mat
           /\ IF r.ok THEN pc' = "bridge" /\ UNCHANGED error
                      ELSE Fail("EngineFailure")
    /\ UNCHANGED <<nt, nz, dwi_group_size, spline_fitting, run_eddy, bvecs_file,
                   bvecs,
                   transposed, index_b0, index_dwi, nb_groups, group_indexes,
                   b0_target, bridge_src, mat_dwigroups, mat_b0groups, mat_eddy, calls,
                   fname_data>>

\* np.argmin: 0-based position of the first smallest element
ArgMin(vals) ==
    (CHOOSE i \in DOMAIN vals :
        /\ \A j \in DOMAIN vals : vals[i] <= vals[j]
        /\ \A j \in DOMAIN vals : j < i => vals[j] > vals[i]) - 1

\* line 388: np.argmin(np.abs(np.array(index_dwi) - index_b0[len(index_b0)-1]))
BridgeIndexFromFirstB0(b0, dwi) ==
    ArgMin([i \in DOMAIN dwi |-> Abs(dwi[i] - At(b0, 0))])

BridgeIndex(b0, dwi) ==
    ArgMin([i \in DOMAIN dwi |-> Abs(dwi[i] - At(b0, Len(b0) - 1))])

\* lines 389-391: the copies of the two nested loops, in order
BridgeCopyOpsSkipLast(b0, src, n_z) ==
    Flatten([b \in 1..(Len(b0) - 1) |->
        [z \in 1..n_z |-> <<<<src, z - 1>>, <<b0[b], z - 1>>>>]])

BridgeCopyOps(b0, src, n_z) ==
    Flatten([b \in 1..Len(b0) |->
        [z \in 1..n_z |-> <<<<src, z - 1>>, <<b0[b], z - 1>>>>]])

\* lines 388-391
CopyB0Matrices ==
    /\ Running
    /\ pc = "bridge"
    /\ LET src == At(index_dwi, BridgeIndex(index_b0, index_dwi))
           r == CopyWithin(mat_final, BridgeCopyOps(index_b0, src, nz))
       IN  /\ bridge_src' = src
           /\ mat_final' = r.mat
           /\ IF r.ok THEN pc' = "rename" /\ UNCHANGED error
                      ELSE Fail("EngineFailure")
    /\ UNCHANGED <<nt, nz, dwi_group_size, spline_fitting, run_eddy, bvecs_file,
                   bvecs,
                   transposed, index_b0, index_dwi, nb_groups, group_indexes,
                   b0_target, mat_dwigroups, mat_b0groups, mat_eddy, calls,
                   fname_data>>

\* lines 394-395: the two glob counts
Nz1(mat) == Cardinality({k \in DOMAIN mat : k[1] = 0})

Nt1(mat) == Cardinality({k \in DOMAIN mat : k[2] = 0})

\* lines 396-399: the renames of the two nested loops, in order
RenameOps(b0, n_t1, n_z1) ==
    Flatten([r \in 1..n_t1 |->
        IF r - 1 # b0[r]
        THEN [z \in 1..n_z1 |-> <<<<r - 1, z - 1>>, <<b0[r], z - 1>>>>]
        ELSE <<>>])

\* lines 393-399
RenameB0Matrices ==
    /\ Running
    /\ pc = "rename"
    /\ LET r == MoveWithin(mat_b0groups,
                           RenameOps(index_b0, Nt1(mat_b0groups), Nz1(mat_b0groups)))
       IN  /\ mat_b0groups' = r.mat
           /\ IF r.ok THEN pc' = "combine" /\ UNCHANGED error
                      ELSE Fail("EngineFailure")
    /\ UNCHANGED <<nt, nz, dwi_group_size, spline_fitting, run_eddy, bvecs_file,
                   bvecs,
                   transposed, index_b0, index_dwi, nb_groups, group_indexes,
                   b0_target, bridge_src, mat_dwigroups, mat_eddy, mat_final, calls,
                   fname_data>>

\* moco.combine_matrix: every file of mat_final that has a file of the same
\* name in mat_2_combine becomes the composition of the two
CombineMatrix(final, other) ==
    [k \in DOMAIN final |-> IF k \in DOMAIN other THEN final[k] \o other[k] ELSE final[k]]

\* lines 401-404
CombineB0 ==
    /\ Running
    /\ pc = "combine"
    /\ calls' = Append(calls, "combine_b0")
    /\ mat_final' = CombineMatrix(mat_final, mat_b0groups)
    /\ pc' = "spline"
    /\ UNCHANGED <<error, nt, nz, dwi_group_size, spline_fitting, run_eddy, bvecs_file,
                   bvecs,
                   transposed, index_b0, index_dwi, nb_groups, group_indexes,
                   b0_target, bridge_src, mat_dwigroups, mat_b0groups, mat_eddy,
                   fname_data>>

\* moco.spline: every transform is replaced by the value of the fitted curve
SplineMatrix(final) ==
    [k \in DOMAIN final |-> Estimate("spline", k[1], k[2])]

\* lines 406-408
SplineFit ==
    /\ Running
    /\ pc = "spline"
    /\ IF spline_fitting # 0
       THEN /\ calls' = Append(calls, "spline")
            /\ mat_final' = SplineMatrix(mat_final)
       ELSE UNCHANGED <<calls, mat_final>>
    /\ pc' = "eddy"
    /\ UNCHANGED <<error, nt, nz, dwi_group_size, spline_fitting, run_eddy, bvecs_file,
                   bvecs,
                   transposed, index_b0, index_dwi, nb_groups, group_indexes,
                   b0_target, bridge_src, mat_dwigroups, mat_b0groups, mat_eddy,
                   fname_data>>

\* lines 410-414
CombineEddy ==
    /\ Running
    /\ pc = "eddy"
    /\ IF run_eddy # 0
       THEN /\ calls' = Append(calls, "combine_eddy")
            /\ mat_final' = CombineMatrix(mat_final, mat_eddy)
       ELSE UNCHANGED <<calls, mat_final>>
    /\ pc' = "apply"
    /\ UNCHANGED <<error, nt, nz, dwi_group_size, spline_fitting, run_eddy, bvecs_file,
                   bvecs,
                   transposed, index_b0, index_dwi, nb_groups, group_indexes,
                   b0_target, bridge_src, mat_dwigroups, mat_b0groups, mat_eddy,
                   fname_data>>

\* lines 416-424
ApplyMocoKeepData ==
    /\ Running
    /\ pc = "apply"
    /\ fname_data' = fname_data
    /\ calls' = Append(calls, "moco_apply")
    /\ pc' = "separate"
    /\ UNCHANGED <<error, nt, nz, dwi_group_size, spline_fitting, run_eddy, bvecs_file,
                   bvecs,
                   transposed, index_b0, index_dwi, nb_groups, group_indexes,
                   b0_target, bridge_src, mat_dwigroups, mat_b0groups, mat_eddy,
                   mat_final>>

ApplyMoco ==
    /\ Running
    /\ pc = "apply"
    /\ fname_data' = "initial"
    /\ calls' = Append(calls, "moco_apply")
    /\ pc' = "separate"
    /\ UNCHANGED <<error, nt, nz, dwi_group_size, spline_fitting, run_eddy, bvecs_file,
                   bvecs,
                   transposed, index_b0, index_dwi, nb_groups, group_indexes,
                   b0_target, bridge_src, mat_dwigroups, mat_b0groups, mat_eddy,
                   mat_final>>

\* lines 426-427
SeparateB0AndDwi ==
    /\ Running
    /\ pc = "separate"
    /\ pc' = "done"
    /\ UNCHANGED <<error, nt, nz, dwi_group_size, spline_fitting, run_eddy, bvecs_file,
                   bvecs,
                   transposed, index_b0, index_dwi, nb_groups, group_indexes,
                   b0_target, bridge_src, mat_dwigroups, mat_b0groups, mat_eddy,
                   mat_final, calls,
                   fname_data>>

\* the positions at which the next statement to run is a call of sct.run or of
\* the moco module
ExternalStages ==
    {"split", "dwi_means", "moco_dwi", "expand", "bridge", "rename", "combine",
     "apply", "separate"}
      \cup (IF B0TargetDefined THEN {"moco_b0"} ELSE {})
      \cup (IF spline_fitting # 0 THEN {"spline"} ELSE {})
      \cup (IF run_eddy # 0 THEN {"eddy"} ELSE {})

\* an external command or the registration engine fails and the run ends
ExternalFailure ==
    /\ Running
    /\ pc \in ExternalStages
    /\ Fail("EngineFailure")
    /\ UNCHANGED <<nt, nz, dwi_group_size, spline_fitting, run_eddy, bvecs_file,
                   bvecs,
                   transposed, index_b0, index_dwi, nb_groups, group_indexes,
                   b0_target, bridge_src, mat_dwigroups, mat_b0groups, mat_eddy,
                   mat_final, calls,
                   fname_data>>

Next ==
    \/ IdentifyVolumes
    \/ SplitAndMergeB0
    \/ BuildGroups
    \/ AverageGroups
    \/ MocoDwiGroups
    \/ MocoB0
    \/ CopyGroupMatrices
    \/ CopyB0Matrices
    \/ RenameB0Matrices
    \/ CombineB0
    \/ SplineFit
    \/ CombineEddy
    \/ ApplyMoco
    \/ SeparateB0AndDwi
    \/ ExternalFailure

Spec == Init /\ [][Next]_vars

\* ------------------------------------------------------------ properties
StageOrder ==
    <<"identify", "split", "groups", "dwi_means", "moco_dwi", "moco_b0", "expand",
      "bridge", "rename", "combine", "spline", "eddy", "apply", "separate", "done">>

StageNo(p) == CHOOSE i \in DOMAIN StageOrder : StageOrder[i] = p

\* the statements at position p have run to their end
Past(p) == StageNo(pc) > StageNo(p)

IsStrictlyIncreasing(s) == \A i, j \in DOMAIN s : i < j => s[i] < s[j]

TimeIndexes == 0..(nt - 1)

\* C1: Volume Classifier, vector form. For a table of nt rows of 3 components,
\* after classification index_b0 and index_dwi are disjoint, their union is
\* 0..nt-1, each is strictly increasing, and t is in index_b0 iff the Euclidean
\* norm of row t is below 0.01 (the sum of the squares below 0.01^2).
C1_Partition ==
    (Past("identify") /\ ~transposed) =>
        /\ Len(bvecs_file) = nt
        /\ Range(index_b0) \cap Range(index_dwi) = {}
        /\ Range(index_b0) \cup Range(index_dwi) = TimeIndexes
        /\ IsStrictlyIncreasing(index_b0)
        /\ IsStrictlyIncreasing(index_dwi)
        /\ \A t \in TimeIndexes :
              LET r == bvecs_file[t + 1]
              IN  t \in Range(index_b0) <=>
                     r[1] * r[1] + r[2] * r[2] + r[3] * r[3]
                         < B0NormThreshold * B0NormThreshold

\* a classified 4-volume series holding a nonzero b=0 row and a row whose norm
\* is exactly the threshold
C1_Witness ==
    /\ Past("identify") /\ ~transposed
    /\ nt = 4
    /\ bvecs_file[2] = <<6, 6, 0>> /\ 1 \in Range(index_b0)
    /\ bvecs_file[3] = <<10, 0, 0>> /\ 2 \in Range(index_dwi)
    /\ Len(index_b0) = 2

\* C2: Group Builder. For n_dwi >= 1 and group_size > 0 the concatenation of
\* group_indexes is index_dwi, nb_groups is ceil(n_dwi / group_size), every
\* group but the last has group_size indices and the last has
\* n_dwi mod group_size indices when that is nonzero, group_size otherwise.
C2_Groups ==
    (Past("groups") /\ Len(index_dwi) >= 1 /\ dwi_group_size > 0) =>
        LET n_dwi == Len(index_dwi)
            gs == dwi_group_size
        IN  /\ Flatten(group_indexes) = index_dwi
            /\ Len(group_indexes) = nb_groups
            /\ nb_groups * gs >= n_dwi
            /\ (nb_groups - 1) * gs < n_dwi
            /\ \A g \in 1..(nb_groups - 1) : Len(group_indexes[g]) = gs
            /\ Len(group_indexes[nb_groups]) =
                  (IF n_dwi % gs # 0 THEN n_dwi % gs ELSE gs)

\* groups built with a remainder group after a full one, and groups built from
\* a group size larger than n_dwi
C2_Witness ==
    /\ Past("groups")
    /\ \/ Len(index_dwi) = 3 /\ dwi_group_size = 2 /\ nb_groups = 2
       \/ Len(index_dwi) = 2 /\ dwi_group_size = 3 /\ nb_groups = 1

\* C3: FinalTransformSet domain coverage. With at least one b0 and one DWI
\* volume and group_size > 0, when the final apply pass starts the keys of
\* mat_final are exactly {0..nt-1} x {0..nz-1}.
C3_Coverage ==
    (pc = "apply" /\ Len(index_b0) >= 1 /\ Len(index_dwi) >= 1 /\ dwi_group_size > 0) =>
        Keys(mat_final) = TimeIndexes \X Slices

C3_Witness ==
    /\ pc = "apply" /\ Running
    /\ nt = 4 /\ nz = 2
    /\ index_b0 = <<1, 2>>
    /\ dwi_group_size = 3

C5_Expansion ==
    (pc \in {"bridge", "rename", "combine"}) =>
        \A g \in DOMAIN group_indexes : \A t \in Range(group_indexes[g]) : \A z \in Slices :
            /\ <<t, z>> \in Keys(mat_final)
            /\ mat_final[<<t, z>>] = Estimate("dwi", g - 1, z)
            /\ mat_final[<<t, z>>] = mat_dwigroups[<<g - 1, z>>]

\* two groups, the first expanded to two time indices that a b0 index separates
C5_Witness ==
    /\ pc = "bridge"
    /\ nb_groups = 2
    /\ group_indexes[1] = <<0, 2>>
    /\ nz = 2

\* C6: Zero DWI volumes. When every gradient vector has norm below 0.01 the
\* run ends before any call of the registration engine (stated for the runs
\* with a table of nt rows of 3 components and a group size > 0).
C6_NoRegistration ==
    (Past("identify") /\ ~transposed /\ dwi_group_size > 0 /\ index_dwi = <<>>) =>
        calls = <<>>

\* the statements of position "identify" have run, to their end or to an exception
IdentifyActed == Past("identify") \/ (pc = "identify" /\ ~Running)

\* sum of the squares of column j of the file's table
ColSumSq(j) == SumSq([i \in 1..Len(bvecs_file) |-> bvecs_file[i][j]])

\* C7 as stated: when the rows of the table do not have width 3 the Volume
\* Classifier fails with MalformedGradientTable and produces no classification.
C7_Original ==
    (IdentifyActed /\ Len(bvecs_file[1]) # RowWidth) =>
        /\ error = "MalformedGradientTable"
        /\ index_b0 = <<>>
        /\ index_dwi = <<>>

\* C7: when the first row of the table does not have width 3, no
\* MalformedGradientTable error is raised: the table is transposed, the run
\* goes on, and time index t is classified by the norm of row t of the
\* transposed table (column t of the file); the run ends with an IndexError
\* exactly when the transposed table has fewer than nt rows.
C7_Transposes ==
    (IdentifyActed /\ Len(bvecs_file[1]) # RowWidth) =>
        /\ error # "MalformedGradientTable"
        /\ transposed
        /\ Len(bvecs) = Len(bvecs_file[1])
        /\ \A j \in DOMAIN bvecs :
              /\ Len(bvecs[j]) = Len(bvecs_file)
              /\ \A i \in DOMAIN bvecs_file : bvecs[j][i] = bvecs_file[i][j]
        /\ IF Len(bvecs_file[1]) < nt
           THEN pc = "identify" /\ error = "IndexError"
           ELSE /\ Past("identify")
                /\ Range(index_b0) \cap Range(index_dwi) = {}
                /\ Range(index_b0) \cup Range(index_dwi) = TimeIndexes
                /\ \A t \in TimeIndexes :
                      t \in Range(index_b0) <=>
                          ColSumSq(t + 1) < B0NormThreshold * B0NormThreshold

\* a 3 x 4 file classified after transposition, and a 3 x 2 file
C7_Witness ==
    /\ Past("identify")
    /\ \/ Len(bvecs_file) = 3 /\ nt = 4 /\ index_b0 = <<0, 2>>
       \/ Len(bvecs_file) = 3 /\ nt = 2 /\ index_b0 = <<1>>

\* C8: Invalid group size. For group_size <= 0 the run never reaches a call of
\* the registration engine, a transform copy or the final apply pass (stated
\* for the runs with a table of nt rows of 3 components that holds a b0 and a
\* DWI volume).
C8_Rejected ==
    (dwi_group_size <= 0 /\ Past("identify") /\ ~transposed
        /\ index_b0 # <<>> /\ index_dwi # <<>>) =>
        (calls = <<>> /\ Keys(mat_final) = {})

\* C9: B0-pass index realignment. After the renames, for every rank r and
\* slice z, mat_b0groups holds under time index index_b0[r] the transform the
\* B0 pass estimated for rank r.
C9_Realigned ==
    (pc = "combine") =>
        \A r \in DOMAIN index_b0 : \A z \in Slices :
            /\ <<index_b0[r], z>> \in Keys(mat_b0groups)
            /\ mat_b0groups[<<index_b0[r], z>>] = Estimate("b0", r - 1, z)

GroupOf(t) == CHOOSE g \in DOMAIN group_indexes : t \in Range(group_indexes[g])

\* C10 as stated: the bridge transform is that of the b0 time index nearest to
\* the last element of index_dwi, and after bridging every b0 time index
\* holds it for every slice.
C10_Original ==
    (pc \in {"rename", "combine"}) =>
        LET last_dwi == index_dwi[Len(index_dwi)]
        IN  /\ bridge_src \in Range(index_b0)
            /\ \A b \in Range(index_b0) :
                  Abs(bridge_src - last_dwi) <= Abs(b - last_dwi)
            /\ \A b \in Range(index_b0) : \A z \in Slices :
                  mat_final[<<b, z>>] = mat_final[<<bridge_src, z>>]

\* C10: the bridge transform is the expanded transform of the DWI time index
\* nearest to the last element of index_b0 (the smallest such index when two
\* are equally near), and after bridging every b0 time index holds it in
\* mat_final for every slice.
C10_Bridge ==
    (pc \in {"rename", "combine"}) =>
        LET last_b0 == index_b0[Len(index_b0)]
        IN  /\ bridge_src \in Range(index_dwi)
            /\ \A d \in Range(index_dwi) :
                  \/ Abs(bridge_src - last_b0) < Abs(d - last_b0)
                  \/ Abs(bridge_src - last_b0) = Abs(d - last_b0) /\ bridge_src <= d
            /\ \A b \in Range(index_b0) : \A z \in Slices :
                  /\ <<b, z>> \in Keys(mat_final)
                  /\ mat_final[<<b, z>>] = mat_final[<<bridge_src, z>>]
                  /\ mat_final[<<b, z>>] = Estimate("dwi", GroupOf(bridge_src) - 1, z)

\* bridging done with two DWI indices equally near the last b0 index, and with
\* the nearest DWI index in the second group
C10_Witness ==
    /\ pc = "rename"
    /\ \/ index_b0 = <<1>> /\ index_dwi = <<0, 2>> /\ bridge_src = 0
       \/ index_b0 = <<0, 3>> /\ bridge_src = 2 /\ dwi_group_size = 1 /\ nz = 2

\* the transform set of a completed run with every transform replaced by pass
ReplacedBy(pass) ==
    [k \in TimeIndexes \X Slices |-> Estimate(pass, k[1], k[2])]

\* C11 as stated: in every completed run the calls are DWI registration, b0
\* registration, b0 combination, optional eddy combination, optional temporal
\* regularization, apply; the regularizer, when enabled, runs after every
\* combination and its output is the set the apply pass consumes.
C11_Original ==
    (pc = "done") =>
        /\ calls = <<"moco_dwi", "moco_b0", "combine_b0">>
                     \o (IF run_eddy # 0 THEN <<"combine_eddy">> ELSE <<>>)
                     \o (IF spline_fitting # 0 THEN <<"spline">> ELSE <<>>)
                     \o <<"moco_apply">>
        /\ spline_fitting # 0 => mat_final = ReplacedBy("spline")

\* C11: Stage ordering. The transform copies start only after both
\* registration passes, and the b0 combination only after the copies and the
\* renames. In every completed run the calls are DWI-group registration, b0
\* registration, b0 combination, temporal regularization when enabled, eddy
\* combination when enabled, apply: the regularizer runs after the b0
\* combination and before the eddy combination, so the apply pass consumes
\* the regularizer's output only when run_eddy is off, and that output
\* composed with the eddy transforms otherwise. The apply pass is called
\* once, last, on the original input series.
C11_Order ==
    /\ Keys(mat_final) # {} => (Len(calls) >= 2 /\ calls[2] = "moco_b0")
    /\ Len(calls) >= 3 =>
          /\ Past("rename")
          /\ SubSeq(calls, 1, 3) = <<"moco_dwi", "moco_b0", "combine_b0">>
    /\ (pc = "done") =>
          /\ calls = <<"moco_dwi", "moco_b0", "combine_b0">>
                       \o (IF spline_fitting # 0 THEN <<"spline">> ELSE <<>>)
                       \o (IF run_eddy # 0 THEN <<"combine_eddy">> ELSE <<>>)
                       \o <<"moco_apply">>
          /\ fname_data = "initial"
          /\ (spline_fitting # 0 /\ run_eddy = 0) => mat_final = ReplacedBy("spline")
          /\ (spline_fitting # 0 /\ run_eddy # 0) =>
                mat_final = [k \in TimeIndexes \X Slices |->
                                Estimate("spline", k[1], k[2]) \o Estimate("eddy", k[1], k[2])]

\* a completed run with both flags set
C11_Witness ==
    /\ pc = "done"
    /\ spline_fitting = 1 /\ run_eddy = 1
    /\ nt = 4 /\ nz = 2
====
